---- MODULE Spec2Model ----
(***************************************************************************)
(* Model of courtlistener_server.py: the shared lazily created AsyncClient *)
(* (_get_client / aclose_client / _schedule_client_close), the bounded     *)
(* retry loop of _request_json, and the four tool handlers.                *)
(*                                                                         *)
(* A step of the model is what one coroutine runs between two suspension   *)
(* points of the asyncio event loop (an await that really suspends: the    *)
(* HTTP round trip, asyncio.sleep, the pool's aclose, asyncio.gather).     *)
(* Strings that the code inspects (strip, regular expressions) are         *)
(* sequences of one-character strings.  An f-string is the sequence of its *)
(* fragments.  logger.warning calls only write log records and are left    *)
(* out; so are the search parameters courts, order_by, highlight and       *)
(* cursor and the per-item normalisation, which only shape the request     *)
(* parameters and the result items.                                        *)
(***************************************************************************)
EXTENDS Integers, Sequences, FiniteSets, TLC

\* ---------------------------------------------------------------- bounds
NumInv == 2
MaxSub == 2
NumClosers == 2

\* ------------------------------------------------------ program constants
None == 0
MAX_REQUEST_RETRIES == 3
RETRYABLE_STATUS_CODES == {429, 500, 502, 503, 504}
APPROX_THRESHOLD == 2000
LIMIT_MIN == 1
LIMIT_MAX == 50

SearchTypes == {"o", "r", "rd", "d", "p", "oa"}
ApproxTypes == {"d", "r", "rd"}
TextFormats == {"html_with_citations", "plain_text"}

\* ------------------------------------------------------------- strings
Digits == {"0", "1", "2", "3", "4", "5", "6", "7", "8", "9"}
Whitespace == {" ", "\t", "\n"}

DigitVal(c) ==
  CASE c = "0" -> 0 [] c = "1" -> 1 [] c = "2" -> 2 [] c = "3" -> 3
    [] c = "4" -> 4 [] c = "5" -> 5 [] c = "6" -> 6 [] c = "7" -> 7
    [] c = "8" -> 8 [] c = "9" -> 9

\* int("...") of a sequence of decimal digits
RECURSIVE ParseInt(_)
ParseInt(ds) ==
  IF ds = <<>> THEN 0
  ELSE 10 * ParseInt(SubSeq(ds, 1, Len(ds) - 1)) + DigitVal(ds[Len(ds)])

\* str.strip(): drop leading and trailing whitespace
RECURSIVE Strip(_)
Strip(s) ==
  IF s = <<>> THEN s
  ELSE IF s[1] \in Whitespace THEN Strip(Tail(s))
  ELSE IF s[Len(s)] \in Whitespace THEN Strip(SubSeq(s, 1, Len(s) - 1))
  ELSE s

\* `not s or not s.strip()`
IsBlank(s) == s = <<>> \/ Strip(s) = <<>>

\* re.search(lit + r"(\d+)/", s): the places (start of the digits, end of
\* the digits) of every match of the literal, a greedy run of one or more
\* digits, and a slash
DigitMatches(lit, s) ==
  { m \in (1..Len(s)) \X (1..Len(s)) :
      /\ m[1] > Len(lit)
      /\ m[1] <= m[2]
      /\ m[2] < Len(s)
      /\ SubSeq(s, m[1] - Len(lit), m[1] - 1) = lit
      /\ \A j \in m[1]..m[2] : s[j] \in Digits
      /\ s[m[2] + 1] = "/" }

HasDigitMatch(lit, s) == DigitMatches(lit, s) # {}

\* m.group(1) of the leftmost match, as an int
FirstDigitMatch(lit, s) ==
  LET ms == DigitMatches(lit, s)
      m  == CHOOSE x \in ms : \A y \in ms : x[1] <= y[1]
  IN  ParseInt(SubSeq(s, m[1], m[2]))

OpinionLit == <<"/", "o", "p", "i", "n", "i", "o", "n", "/">>
OpinionsLit == <<"/", "o", "p", "i", "n", "i", "o", "n", "s", "/">>

\* ------------------------------------------------------------- inputs
\* what a caller may pass and what the upstream API may answer
Str_a == <<"a">>
QueryInputs == {<<>>, <<" ">>, <<" ", "\t">>, Str_a, <<" ", "a", " ">>}
TypeInputs == SearchTypes \cup {"x"}
LimitInputs == {LIMIT_MIN - 1, LIMIT_MIN, LIMIT_MAX, LIMIT_MAX + 1}
FormatInputs == TextFormats \cup {"pdf"}
CountInputs == {0, APPROX_THRESHOLD, APPROX_THRESHOLD + 1, 2501}

\* "/opinion/12/x", "/opinion/12", "/opinions/12/", "/invalid", "", " "
UrlGood == OpinionLit \o <<"1", "2", "/", "x">>
UrlNoSlash == OpinionLit \o <<"1", "2">>
UrlApi == OpinionsLit \o <<"1", "2", "/">>
UrlInvalid == <<"/", "i", "n", "v", "a", "l", "i", "d">>
UrlInputs == {UrlGood, UrlNoSlash, UrlApi, UrlInvalid, <<>>, <<" ">>}

\* sub_opinions entries: ".../opinions/<n>/" for n = 1 .. MaxSub, and an
\* entry the pattern does not match; a cluster lists an opinion once
DigitChar(n) == CHOOSE c \in Digits : DigitVal(c) = n
OpinionUri(n) == OpinionsLit \o <<DigitChar(n), "/">>
BadUri == <<"/", "x", "/">>
SubUris == {OpinionUri(n) : n \in 1..MaxSub} \cup {BadUri}
SubOpinionLists ==
  UNION {{l \in [1..n -> SubUris] : \A j, k \in 1..n : l[j] = l[k] => j = k} : n \in 0..MaxSub}

\* the values of COURTLISTENER_API_TOKEN in os.environ
TokenUnset == [present |-> FALSE, value |-> <<>>]
TokenSet(v) == [present |-> TRUE, value |-> v]
TokenInputs == {TokenUnset, TokenSet(<<>>), TokenSet(<<" ">>), TokenSet(<<" ", "t", " ">>)}

\* HTTP statuses the upstream may answer with
AllStatuses == {200, 400, 404, 501} \cup RETRYABLE_STATUS_CODES
FewStatuses == {200, 404, 503}
TwoStatuses == {200, 503}

\* ------------------------------------------------------------- values
Invs == 1..NumInv
Closers == 1..NumClosers
\* <<i, 0>> is the request the handler i awaits itself, <<i, k>> the
\* request of the k-th coroutine handed to asyncio.gather
Reqs == Invs \X (0..MaxSub)

SearchUrl == [endpoint |-> "search", id |-> 0]
OpinionUrl(n) == [endpoint |-> "opinions", id |-> n]
ClusterUrl(n) == [endpoint |-> "clusters", id |-> n]
NoUrl == [endpoint |-> "none", id |-> 0]

NoJson == [id |-> 0, count |-> 0, sub_opinions |-> <<>>]
NoErr == [type |-> "none", msg |-> <<>>]
NoExc == [kind |-> "none", status |-> 0, url |-> NoUrl]

\* fragments of a formatted message
Lit(s) == [status |-> 0, url |-> NoUrl, frag |-> "lit", text |-> s]
StatusFrag(n) == [status |-> n, url |-> NoUrl, frag |-> "status", text |-> ""]
BodyFrag(n) == [status |-> n, url |-> NoUrl, frag |-> "body", text |-> ""]
DescFrag == [status |-> 0, url |-> NoUrl, frag |-> "transport", text |-> ""]
UrlFrag(u) == [status |-> 0, url |-> u, frag |-> "url", text |-> ""]

ValueError(s) == [type |-> "ValueError", msg |-> <<Lit(s)>>]
RuntimeError(m) == [type |-> "RuntimeError", msg |-> m]

\* what the upstream may answer to a request for url, with statuses in menu;
\* transport: the connection may also fail or time out
Responses(url, menu, transport) ==
  (IF transport THEN {[kind |-> "transport", status |-> 0, json |-> NoJson]} ELSE {})
  \cup {[kind |-> "http", status |-> s, json |-> NoJson] : s \in menu \ {200}}
  \cup (IF 200 \notin menu THEN {}
        ELSE IF url.endpoint = "search"
          THEN {[kind |-> "ok", status |-> 200,
                 json |-> [NoJson EXCEPT !.count = c]] : c \in CountInputs}
        ELSE IF url.endpoint = "clusters"
          THEN {[kind |-> "ok", status |-> 200,
                 json |-> [NoJson EXCEPT !.id = url.id, !.sub_opinions = so]] :
                   so \in SubOpinionLists}
        ELSE {[kind |-> "ok", status |-> 200, json |-> [NoJson EXCEPT !.id = url.id]]})

\* -------------------------------------------------------------- state
VARIABLES
  token,         \* os.environ.get("COURTLISTENER_API_TOKEN")
  client,        \* the module global: None or the shared AsyncClient
  pools,         \* every AsyncClient constructed so far, by identity 1, 2, ..
  loop_running,  \* the event loop that serves the tools is running
  inv,           \* the tool invocations (handler coroutines)
  req,           \* the _request_json calls
  closer,        \* the aclose_client calls
  retired        \* the pools the global referenced when it was reset to None

vars == <<token, client, pools, loop_running, inv, req, closer, retired>>

NoArgs ==
  [type |-> "o", url |-> <<>>, query |-> <<>>, semantic |-> FALSE,
   limit |-> 10, opinion_id |-> 0,
   text_format |-> "html_with_citations", cluster_id |-> 0, include_opinions |-> FALSE]

NoResult ==
  [count |-> 0, sub_opinions |-> <<>>, opinion_id |-> 0, text_format |-> "",
   cluster_id |-> 0, approximate |-> FALSE, opinions |-> <<>>,
   opinion_errors |-> <<>>, resolved_type |-> ""]

IdleInv ==
  [pc |-> "idle", tool |-> "none", args |-> NoArgs, opinion_ids |-> <<>>,
   error |-> NoErr, result |-> NoResult]

IdleReq ==
  [url |-> NoUrl, json |-> NoJson, text_format |-> "", pc |-> "unused",
   attempt |-> 0, inst |-> None, calls |-> 0, e |-> NoExc,
   last_error |-> NoExc, err |-> NoErr]

IdleCloser == [pc |-> "idle", target |-> None]

Init ==
  /\ token \in TokenInputs
  /\ client = None
  /\ pools = <<>>
  /\ loop_running = TRUE
  /\ inv = [i \in Invs |-> IdleInv]
  /\ req = [r \in Reqs |-> IdleReq]
  /\ closer = [c \in Closers |-> IdleCloser]
  /\ retired = {}

\* ------------------------------------------------ the shared AsyncClient
\* _get_api_token: the stripped token, or the RuntimeError it raises
_get_api_token_unstripped ==
  IF ~token.present \/ token.value = <<>>
  THEN [value |-> <<>>, err |-> RuntimeError(<<Lit("Missing COURTLISTENER_API_TOKEN environment variable")>>),
        raised |-> TRUE]
  ELSE [value |-> token.value, err |-> NoErr, raised |-> FALSE]

_get_api_token ==
  IF ~token.present \/ token.value = <<>>
  THEN [value |-> <<>>, err |-> RuntimeError(<<Lit("Missing COURTLISTENER_API_TOKEN environment variable")>>),
        raised |-> TRUE]
  ELSE LET cleaned == Strip(token.value)
       IN  IF cleaned = <<>>
           THEN [value |-> <<>>, err |-> RuntimeError(<<Lit("COURTLISTENER_API_TOKEN is empty or whitespace only")>>),
                 raised |-> TRUE]
           ELSE [value |-> cleaned, err |-> NoErr, raised |-> FALSE]

NewPool(tok) == [state |-> "open", authorization |-> tok, aclose_calls |-> 0]

\* a _get_client that constructs a client on every call
_get_client_always_new ==
  LET t == _get_api_token
  IN  IF t.raised
      THEN [client |-> client, pools |-> pools, err |-> t.err, raised |-> TRUE,
            instance |-> None]
      ELSE [client |-> Len(pools) + 1, pools |-> Append(pools, NewPool(t.value)), err |-> NoErr,
            raised |-> FALSE, instance |-> Len(pools) + 1]

\* _get_client: runs without suspending, so the test of the global and the
\* assignment to it are one step. The value of the global, of pools and the
\* instance returned after the call, or the error raised.
_get_client ==
  IF client = None
  THEN LET t == _get_api_token
       IN  IF t.raised
           THEN [client |-> client, pools |-> pools, err |-> t.err, raised |-> TRUE,
                 instance |-> None]
           ELSE [client |-> Len(pools) + 1, pools |-> Append(pools, NewPool(t.value)), err |-> NoErr,
                 raised |-> FALSE, instance |-> Len(pools) + 1]
  ELSE [client |-> client, pools |-> pools, err |-> NoErr, raised |-> FALSE,
        instance |-> client]

\* ------------------------------------------------------- _request_json
\* the call ends: its frame, with client_instance, attempt and last_error,
\* is gone; calls keeps the number of attempts that went upstream
Return(rq, json) ==
  [IdleReq EXCEPT !.pc = "returned", !.url = rq.url, !.text_format = rq.text_format,
                  !.calls = rq.calls, !.json = json]

Raise(rq, err) ==
  [IdleReq EXCEPT !.pc = "raised", !.url = rq.url, !.text_format = rq.text_format,
                  !.calls = rq.calls, !.err = err]

\* a client that sends whatever its state is
SendAttempt_unguarded(rq, ps) ==
  [rq EXCEPT !.pc = "inflight", !.calls = @ + 1]

\* client_instance.request(...): the attempt goes upstream and the coroutine
\* suspends, unless the AsyncClient was closed, which makes the client raise
\* a RuntimeError that no except clause of _request_json catches
SendAttempt(rq, ps) ==
  IF ps[rq.inst].state = "closed"
  THEN Raise(rq, RuntimeError(<<Lit("Cannot send a request, as the client has been closed.")>>))
  ELSE [rq EXCEPT !.pc = "inflight", !.calls = @ + 1]

\* a loop that counts its attempts from 0
BeginRequest_from_zero(url, fmt) ==
  LET g == _get_client
      rq == [IdleReq EXCEPT !.url = url, !.text_format = fmt]
  IN  [client |-> g.client, pools |-> g.pools,
       rq |-> IF g.raised
              THEN Raise(rq, g.err)
              ELSE SendAttempt([rq EXCEPT !.inst = g.instance, !.attempt = 0], g.pools)]

\* lines 108-113 up to the first suspension: the record of the call, the
\* global and the pools after it
BeginRequest(url, fmt) ==
  LET g == _get_client
      rq == [IdleReq EXCEPT !.url = url, !.text_format = fmt]
  IN  [client |-> g.client, pools |-> g.pools,
       rq |-> IF g.raised
              THEN Raise(rq, g.err)
              ELSE SendAttempt([rq EXCEPT !.inst = g.instance, !.attempt = 1], g.pools)]

\* a retry of every failing status
should_retry_any_status(status, attempt) == attempt < MAX_REQUEST_RETRIES

\* line 118
should_retry_status(status, attempt) ==
  status \in RETRYABLE_STATUS_CODES /\ attempt < MAX_REQUEST_RETRIES

\* line 132
should_retry_transport(attempt) == attempt < MAX_REQUEST_RETRIES

\* line 130: the status and the first 500 characters of the response body
HttpErrorMessage(status) ==
  <<Lit("CourtListener HTTP error "), StatusFrag(status), Lit(": "), BodyFrag(status)>>

\* line 140: str(e) of the transport error
TransportErrorMessage == <<Lit("CourtListener request error: "), DescFrag>>

\* the attempt's answer arrives: lines 113-140
OnResponse(rq, resp) ==
  IF resp.kind = "ok"
  THEN Return(rq, resp.json)
  ELSE IF resp.kind = "http"
  THEN IF should_retry_status(resp.status, rq.attempt)
       THEN [rq EXCEPT !.pc = "sleeping",
               !.e = [kind |-> "http", status |-> resp.status, url |-> rq.url]]
       ELSE Raise(rq, RuntimeError(HttpErrorMessage(resp.status)))
  ELSE IF should_retry_transport(rq.attempt)
       THEN [rq EXCEPT !.pc = "sleeping",
               !.e = [kind |-> "transport", status |-> 0, url |-> rq.url]]
       ELSE Raise(rq, RuntimeError(TransportErrorMessage))

\* asyncio.sleep(0.5 * attempt) is over: last_error = e; continue (leaving
\* the except block unbinds e). The loop is left without a return only after
\* an attempt numbered MAX_REQUEST_RETRIES was retried, which should_retry
\* excludes: lines 142-145 are never run.
OnWake(rq, ps) ==
  IF rq.attempt + 1 <= MAX_REQUEST_RETRIES
  THEN SendAttempt([rq EXCEPT !.last_error = rq.e, !.e = NoExc, !.attempt = @ + 1], ps)
  ELSE Raise(rq,
         RuntimeError(<<Lit("CourtListener request failed after retries: "),
                        IF rq.e.kind = "http" THEN StatusFrag(rq.e.status) ELSE DescFrag,
                        IF rq.e.kind = "http" THEN UrlFrag(rq.e.url) ELSE Lit("")>>))

Finished(rq) == rq.pc \in {"returned", "raised"}

\* ------------------------------------------------------ tool handlers
_approximate_count_flag_ge(result_type, count) ==
  result_type \in ApproxTypes /\ count >= APPROX_THRESHOLD

_approximate_count_flag(result_type, count) ==
  result_type \in ApproxTypes /\ count > APPROX_THRESHOLD

\* the checks of courtlistener_search without the one of limit
SearchValidation_no_limit(a) ==
  IF IsBlank(a.query) THEN ValueError("query is required")
  ELSE IF a.type \notin SearchTypes THEN ValueError("type must be one of: o, r, rd, d, p, oa")
  ELSE IF a.semantic /\ a.type # "o"
    THEN ValueError("semantic search is only available for type='o' (case law)")
  ELSE NoErr

\* the checks of courtlistener_search, in the order of lines 178-188
SearchValidation(a) ==
  IF IsBlank(a.query) THEN ValueError("query is required")
  ELSE IF a.type \notin SearchTypes THEN ValueError("type must be one of: o, r, rd, d, p, oa")
  ELSE IF a.semantic /\ a.type # "o"
    THEN ValueError("semantic search is only available for type='o' (case law)")
  ELSE IF a.limit < LIMIT_MIN \/ a.limit > LIMIT_MAX
    THEN ValueError("limit must be between 1 and 50")
  ELSE NoErr

OpinionValidation(fmt) ==
  IF fmt \notin TextFormats
  THEN ValueError("text_format must be 'html_with_citations' or 'plain_text'")
  ELSE NoErr

ClusterValidation(fmt) ==
  IF fmt \notin TextFormats
  THEN ValueError("opinion_text_format must be 'html_with_citations' or 'plain_text'")
  ELSE NoErr

ResolveValidation(url) ==
  IF IsBlank(url) THEN ValueError("url is required")
  ELSE IF ~HasDigitMatch(OpinionLit, url)
    THEN ValueError("Unsupported URL format. Expected a CourtListener /opinion/<cluster_id>/ URL.")
  ELSE NoErr

\* lines 327-335: the ids of the sub_opinions entries the pattern matches
RECURSIVE ExtractOpinionIds(_)
ExtractOpinionIds(uris) ==
  IF uris = <<>> THEN <<>>
  ELSE IF HasDigitMatch(OpinionsLit, uris[1])
    THEN <<FirstDigitMatch(OpinionsLit, uris[1])>> \o ExtractOpinionIds(Tail(uris))
  ELSE ExtractOpinionIds(Tail(uris))

\* what courtlistener_get_opinion returns for the JSON it fetched
OpinionResult(rq) == [opinion_id |-> rq.json.id, text_format |-> rq.text_format]

\* the handler i after its own request rq returned or raised, or while it is
\* still pending: the handler's record and the coroutines it hands to gather
AfterMain(iv, rq) ==
  IF rq.pc = "raised"
  THEN [inv |-> [iv EXCEPT !.pc = "done", !.error = rq.err], tasks |-> <<>>]
  ELSE IF rq.pc # "returned"
  THEN [inv |-> [iv EXCEPT !.pc = "awaiting"], tasks |-> <<>>]
  ELSE IF iv.tool = "search"
  THEN [inv |-> [iv EXCEPT !.pc = "done",
                   !.result.count = rq.json.count,
                   !.result.approximate = _approximate_count_flag(iv.args.type, rq.json.count)],
        tasks |-> <<>>]
  ELSE IF iv.tool = "get_opinion"
  THEN [inv |-> [iv EXCEPT !.pc = "done",
                   !.result.opinion_id = rq.json.id,
                   !.result.text_format = iv.args.text_format],
        tasks |-> <<>>]
  ELSE \* get_cluster, also when resolve_from_url awaits it
    LET res == [iv.result EXCEPT !.cluster_id = rq.json.id,
                                 !.sub_opinions = rq.json.sub_opinions,
                                 !.resolved_type =
                                    IF iv.tool = "resolve_from_url" THEN "cluster" ELSE ""]
        ids == IF iv.args.include_opinions /\ res.sub_opinions # <<>>
               THEN ExtractOpinionIds(res.sub_opinions) ELSE <<>>
    IN  IF ids = <<>>
        THEN [inv |-> [iv EXCEPT !.pc = "done", !.result = res], tasks |-> <<>>]
        ELSE [inv |-> [iv EXCEPT !.pc = "gathering", !.result = res, !.opinion_ids = ids],
              tasks |-> [k \in 1..Len(ids) |->
                           [IdleReq EXCEPT !.pc = "scheduled", !.url = OpinionUrl(ids[k]),
                                           !.text_format = iv.args.text_format]]]

\* the step of handler i that leaves its own request as rq
Settle(i, iv, rq) ==
  LET a == AfterMain(iv, rq)
  IN  /\ inv' = [inv EXCEPT ![i] = a.inv]
      /\ req' = [r \in Reqs |->
                   IF r = <<i, 0>> THEN rq
                   ELSE IF r[1] = i /\ r[2] \in 1..Len(a.tasks) THEN a.tasks[r[2]]
                   ELSE req[r]]

\* a handler is called with arguments a: it validates them and, when they
\* pass, runs up to the first suspension of its _get_json
Call(i, tool, a, invalid, url) ==
  /\ loop_running
  /\ inv[i].pc = "idle"
  /\ LET iv == [inv[i] EXCEPT !.tool = tool, !.args = a]
     IN  IF invalid.type # "none"
         THEN /\ inv' = [inv EXCEPT ![i] = [iv EXCEPT !.pc = "done", !.error = invalid]]
              /\ UNCHANGED <<client, pools, req>>
         ELSE LET b == BeginRequest(url, a.text_format)
              IN  /\ client' = b.client
                  /\ pools' = b.pools
                  /\ Settle(i, iv, b.rq)
  /\ UNCHANGED <<token, loop_running, closer, retired>>

courtlistener_search(i, query, type, semantic, limit) ==
  LET a == [NoArgs EXCEPT !.query = query, !.type = type, !.semantic = semantic,
                          !.limit = limit]
  IN  Call(i, "search", a, SearchValidation(a), SearchUrl)

courtlistener_get_opinion(i, opinion_id, text_format) ==
  LET a == [NoArgs EXCEPT !.opinion_id = opinion_id, !.text_format = text_format]
  IN  Call(i, "get_opinion", a, OpinionValidation(text_format), OpinionUrl(opinion_id))

courtlistener_get_cluster(i, cluster_id, include_opinions, opinion_text_format) ==
  LET a == [NoArgs EXCEPT !.cluster_id = cluster_id, !.include_opinions = include_opinions,
                          !.text_format = opinion_text_format]
  IN  Call(i, "get_cluster", a, ClusterValidation(opinion_text_format), ClusterUrl(cluster_id))

\* resolve_from_url validates the url, then awaits courtlistener_get_cluster,
\* which validates the text format
courtlistener_resolve_from_url(i, url, include_opinions, opinion_text_format) ==
  LET bad == ResolveValidation(url)
      cid == IF bad.type = "none" THEN FirstDigitMatch(OpinionLit, url) ELSE 0
      a == [NoArgs EXCEPT !.url = url, !.cluster_id = cid,
                          !.include_opinions = include_opinions,
                          !.text_format = opinion_text_format]
  IN  Call(i, "resolve_from_url", a,
           IF bad.type # "none" THEN bad ELSE ClusterValidation(opinion_text_format),
           ClusterUrl(cid))

\* the upstream answers the pending attempt of request r
Respond(r, resp) ==
  /\ loop_running
  /\ req[r].pc = "inflight"
  /\ LET rq == OnResponse(req[r], resp)
     IN  IF r[2] = 0 THEN Settle(r[1], inv[r[1]], rq)
         ELSE /\ req' = [req EXCEPT ![r] = rq]
              /\ UNCHANGED inv
  /\ UNCHANGED <<token, client, pools, loop_running, closer, retired>>

\* the backoff delay of request r is over
Wake(r) ==
  /\ loop_running
  /\ req[r].pc = "sleeping"
  /\ LET rq == OnWake(req[r], pools)
     IN  IF r[2] = 0 THEN Settle(r[1], inv[r[1]], rq)
         ELSE /\ req' = [req EXCEPT ![r] = rq]
              /\ UNCHANGED inv
  /\ UNCHANGED <<token, client, pools, loop_running, closer, retired>>

\* the event loop starts the k-th coroutine of the gather of handler i:
\* courtlistener_get_opinion up to its first suspension. The loop starts the
\* tasks in the order gather created them.
OpinionTaskStart(i, k) ==
  /\ loop_running
  /\ k >= 1
  /\ req[<<i, k>>].pc = "scheduled"
  /\ \A j \in 1..(k - 1) : req[<<i, j>>].pc # "scheduled"
  /\ LET cur == req[<<i, k>>]
         bad == OpinionValidation(cur.text_format)
     IN  IF bad.type # "none"
         THEN /\ req' = [req EXCEPT ![<<i, k>>] = [cur EXCEPT !.pc = "raised", !.err = bad]]
              /\ UNCHANGED <<client, pools>>
         ELSE LET b == BeginRequest(cur.url, cur.text_format)
              IN  /\ client' = b.client
                  /\ pools' = b.pools
                  /\ req' = [req EXCEPT ![<<i, k>>] = b.rq]
  /\ UNCHANGED <<token, loop_running, inv, closer, retired>>

\* lines 337-347: zip(opinion_ids, results of gather)
RECURSIVE Successes(_, _)
Successes(i, k) ==
  IF k = 0 THEN <<>>
  ELSE Successes(i, k - 1) \o
       (IF req[<<i, k>>].pc = "returned" THEN <<OpinionResult(req[<<i, k>>])>> ELSE <<>>)

RECURSIVE Failures(_, _)
Failures(i, k) ==
  IF k = 0 THEN <<>>
  ELSE Failures(i, k - 1) \o
       (IF req[<<i, k>>].pc = "raised"
        THEN <<[opinion_id |-> inv[i].opinion_ids[k], error |-> req[<<i, k>>].err]>>
        ELSE <<>>)

\* a gather without return_exceptions: the first exception is raised in the
\* handler as soon as one task fails
GatherDone_propagate(i) ==
  /\ loop_running
  /\ inv[i].pc = "gathering"
  /\ LET n == Len(inv[i].opinion_ids)
     IN  \/ /\ \E k \in 1..n : req[<<i, k>>].pc = "raised"
            /\ inv' = [inv EXCEPT ![i] =
                 [@ EXCEPT !.pc = "done",
                    !.error = req[<<i, CHOOSE k \in 1..n : req[<<i, k>>].pc = "raised">>].err]]
         \/ /\ \A k \in 1..n : req[<<i, k>>].pc = "returned"
            /\ inv' = [inv EXCEPT ![i] =
                 [@ EXCEPT !.pc = "done", !.result.opinions = Successes(i, n)]]
  /\ UNCHANGED <<token, client, pools, loop_running, req, closer, retired>>

\* asyncio.gather(*opinion_tasks, return_exceptions=True) completes when every
\* task has returned or raised; the handler then builds opinions and
\* opinion_errors (the key is set only when there are errors) and returns
GatherDone(i) ==
  /\ loop_running
  /\ inv[i].pc = "gathering"
  /\ LET n == Len(inv[i].opinion_ids)
     IN  /\ \A k \in 1..n : Finished(req[<<i, k>>])
         /\ inv' = [inv EXCEPT ![i] =
              [@ EXCEPT !.pc = "done",
                 !.result.opinions = Successes(i, n),
                 !.result.opinion_errors = Failures(i, n)]]
  /\ UNCHANGED <<token, client, pools, loop_running, req, closer, retired>>

\* ------------------------------------------------------ aclose_client
\* lines 62-63 with the closing step of line 64 left out
aclose_resume_keep(c) ==
  /\ loop_running
  /\ closer[c].pc = "awaiting"
  /\ closer' = [closer EXCEPT ![c] = [pc |-> "returned", target |-> None]]
  /\ UNCHANGED <<token, client, pools, loop_running, inv, req, retired>>

\* lines 62-63: the test of the global and the call of the client's aclose,
\* which marks the client closed and suspends while its transport closes (a
\* call that does not suspend is this step followed at once by aclose_resume)
aclose_client(c) ==
  /\ loop_running
  /\ closer[c].pc \in {"idle", "scheduled"}
  /\ IF client = None
     THEN /\ closer' = [closer EXCEPT ![c].pc = "returned"]
          /\ UNCHANGED pools
     ELSE /\ closer' = [closer EXCEPT ![c] = [pc |-> "awaiting", target |-> client]]
          /\ pools' = [pools EXCEPT ![client].state = "closed",
                                    ![client].aclose_calls = @ + 1]
  /\ UNCHANGED <<token, client, loop_running, inv, req, retired>>

\* line 64, after the await: client = None
aclose_resume(c) ==
  /\ loop_running
  /\ closer[c].pc = "awaiting"
  /\ client' = None
  /\ retired' = retired \cup ({client} \ {None})
  /\ closer' = [closer EXCEPT ![c] = [pc |-> "returned", target |-> None]]
  /\ UNCHANGED <<token, pools, loop_running, inv, req>>

\* _schedule_client_close: with a running loop the close becomes a task of
\* it; without one, asyncio.run drives aclose_client to its end on a loop of
\* its own, where nothing else runs
_schedule_client_close(c) ==
  /\ closer[c].pc = "idle"
  /\ IF client = None
     THEN /\ closer' = [closer EXCEPT ![c].pc = "returned"]
          /\ UNCHANGED <<client, pools, retired>>
     ELSE IF loop_running
     THEN /\ closer' = [closer EXCEPT ![c].pc = "scheduled"]
          /\ UNCHANGED <<client, pools, retired>>
     ELSE /\ closer' = [closer EXCEPT ![c].pc = "returned"]
          /\ pools' = [pools EXCEPT ![client].state = "closed",
                                    ![client].aclose_calls = @ + 1]
          /\ client' = None
          /\ retired' = retired \cup {client}
  /\ UNCHANGED <<token, loop_running, inv, req>>

\* the server shuts down: the runner of the event loop cancels every task
\* still pending and the loop stops, so the frames of the handlers, requests
\* and closes are gone; the exit hook has not run yet
LoopStop ==
  /\ loop_running
  /\ loop_running' = FALSE
  /\ inv' = [i \in Invs |-> [IdleInv EXCEPT !.pc = "gone"]]
  /\ req' = [r \in Reqs |-> [IdleReq EXCEPT !.pc = "gone"]]
  /\ closer' = [c \in Closers |->
                 IF closer[c].pc = "idle" THEN closer[c] ELSE [pc |-> "gone", target |-> None]]
  /\ UNCHANGED <<token, client, pools, retired>>

\* ------------------------------------------------------ specifications
OpinionIdInputs == {7}
ClusterIdInputs == {12}

Invoke(i) ==
  \/ \E q \in QueryInputs, t \in TypeInputs, sem \in BOOLEAN, lim \in LimitInputs :
       courtlistener_search(i, q, t, sem, lim)
  \/ \E id \in OpinionIdInputs, fmt \in FormatInputs :
       courtlistener_get_opinion(i, id, fmt)
  \/ \E id \in ClusterIdInputs, incl \in BOOLEAN, fmt \in FormatInputs :
       courtlistener_get_cluster(i, id, incl, fmt)
  \/ \E u \in UrlInputs, incl \in BOOLEAN, fmt \in FormatInputs :
       courtlistener_resolve_from_url(i, u, incl, fmt)

\* one tool invocation; the upstream answers it with every status, and the
\* opinion fetches of its fan-out with a few
Next ==
  \/ Invoke(1)
  \/ \E resp \in Responses(req[<<1, 0>>].url, AllStatuses, TRUE) : Respond(<<1, 0>>, resp)
  \/ \E k \in 1..MaxSub : \E resp \in Responses(req[<<1, k>>].url, FewStatuses, FALSE) :
       Respond(<<1, k>>, resp)
  \/ \E k \in 0..MaxSub : Wake(<<1, k>>)
  \/ \E k \in 1..MaxSub : OpinionTaskStart(1, k)
  \/ GatherDone(1)

Spec == Init /\ [][Next]_vars

\* the slots of Invs, like those of Closers, are interchangeable: they are
\* taken in order, the next one only once the one before it is in use
InOrder_inv(i) == \A j \in 1..(i - 1) : inv[j].pc # "idle"

InOrder_closer(c) ==
  closer[c].pc = "idle" => \A d \in 1..(c - 1) : closer[d].pc # "idle"

\* concurrent get_opinion invocations and closes of the shared client
NextShared ==
  \/ \E i \in Invs, id \in OpinionIdInputs :
       InOrder_inv(i) /\ courtlistener_get_opinion(i, id, "plain_text")
  \/ \E i \in Invs : \E resp \in Responses(req[<<i, 0>>].url, TwoStatuses, FALSE) :
       Respond(<<i, 0>>, resp)
  \/ \E i \in Invs : Wake(<<i, 0>>)
  \/ \E c \in Closers : InOrder_closer(c) /\ aclose_client(c)
  \/ \E c \in Closers : aclose_resume(c)
  \/ \E c \in Closers : InOrder_closer(c) /\ _schedule_client_close(c)
  \/ LoopStop

SpecShared == Init /\ [][NextShared]_vars

\* ------------------------------------------------------------ claims
Active(r) == req[r].pc \in {"inflight", "sleeping"}

HasFrag(err, kind) == \E k \in 1..Len(err.msg) : err.msg[k].frag = kind

\* the status a raised HTTP error names, 0 when it names none
ErrStatus(err) ==
  IF HasFrag(err, "status")
  THEN err.msg[CHOOSE k \in 1..Len(err.msg) : err.msg[k].frag = "status"].status
  ELSE 0

EmbedsUrl(err, url) ==
  \E k \in 1..Len(err.msg) : err.msg[k].frag = "url" /\ err.msg[k].url = url

C1_Counts ==
  \A r \in Reqs :
    /\ req[r].calls <= 3
    /\ Active(r) => (req[r].calls = req[r].attempt /\ req[r].attempt \in 1..3)
    \* a 503 is surfaced only by the third attempt: attempts 1 and 2 are retried
    /\ (req[r].pc = "raised" /\ ErrStatus(req[r].err) = 503) => req[r].calls = 3

C1_Step ==
  \A r \in Reqs :
    \* the successful attempt is the last one: no call is added on return, and
    \* a returned call stays as it is
    /\ (req[r].pc = "inflight" /\ req'[r].pc = "returned") => req'[r].calls = req[r].calls
    /\ req[r].pc = "returned" => req'[r] = req[r]
    \* attempts are made one at a time
    /\ req'[r].calls > req[r].calls => req'[r].calls = req[r].calls + 1

\* C1: one call of _request_json makes at most 3 upstream attempts, stops at
\* the first successful attempt and returns its JSON; after 503, 503 and a
\* success it has returned with exactly 3 upstream calls.
C1_RetryBound == []C1_Counts /\ [][C1_Step]_vars

C1_Witness ==
  /\ req[<<1, 0>>].pc = "returned"
  /\ req[<<1, 0>>].calls = 3
  /\ inv[1].pc = "done"
  /\ inv[1].tool = "get_opinion"
  /\ inv[1].error = NoErr
  /\ inv[1].result.opinion_id = 7

RetryableFailure(e) ==
  \/ e.kind = "transport"
  \/ e.kind = "http" /\ e.status \in {429, 500, 502, 503, 504}

C2_Sleeping ==
  \A r \in Reqs : req[r].pc = "sleeping" => RetryableFailure(req[r].e)

C2_Step ==
  \A r \in Reqs :
    \* a further attempt follows only a retryable failure
    /\ (req[r].calls >= 1 /\ req'[r].calls > req[r].calls) =>
         (req[r].pc = "sleeping" /\ RetryableFailure(req[r].e))
    \* an attempt that fails with another status ends the call there, with an
    \* error that names the status
    /\ (req[r].pc = "inflight" /\ req'[r].pc = "raised"
          /\ ErrStatus(req'[r].err) \notin {429, 500, 502, 503, 504}) =>
         (req'[r].calls = req[r].calls /\ req'[r].err.type = "RuntimeError")
    /\ (req[r].pc = "inflight" /\ req'[r].pc \notin {"inflight", "returned", "raised"}) =>
         (req'[r].pc = "sleeping" /\ RetryableFailure(req'[r].e))

\* C2: an attempt is followed by another attempt only if it failed with a
\* transport error or a status in {429, 500, 502, 503, 504}; a failure with
\* any other status ends the call with an error at that attempt (after
\* exactly 1 upstream call when it is the first).
C2_RetryOnlyTransient == []C2_Sleeping /\ [][C2_Step]_vars

C2_Witness ==
  /\ req[<<1, 0>>].pc = "raised"
  /\ ErrStatus(req[<<1, 0>>].err) = 404
  /\ req[<<1, 0>>].calls = 1
  /\ inv[1].pc = "done"
  /\ inv[1].error.type = "RuntimeError"

Exhausted(r) ==
  /\ req[r].pc = "raised"
  /\ req[r].calls = 3
  /\ \/ ErrStatus(req[r].err) \in {429, 500, 502, 503, 504}
     \/ HasFrag(req[r].err, "transport")

\* C3: when _request_json exhausts its retries it fails with one synthesized
\* error that embeds the last observed status or transport error and the
\* request URL.
C3_ExhaustedErrorEmbedsUrl ==
  \A r \in Reqs : Exhausted(r) =>
    /\ req[r].err.type = "RuntimeError"
    /\ HasFrag(req[r].err, "status") \/ HasFrag(req[r].err, "transport")
    /\ EmbedsUrl(req[r].err, req[r].url)

\* the constraints on the arguments, as documented
ViolatesConstraint(tool, a) ==
  \/ /\ tool = "search"
     /\ \/ \A k \in 1..Len(a.query) : a.query[k] \in Whitespace
        \/ a.type \notin {"o", "r", "rd", "d", "p", "oa"}
        \/ a.semantic /\ a.type # "o"
        \/ a.limit \notin 1..50
  \/ /\ tool \in {"get_opinion", "get_cluster"}
     /\ a.text_format \notin {"html_with_citations", "plain_text"}
  \/ /\ tool = "resolve_from_url"
     /\ \/ \A k \in 1..Len(a.url) : a.url[k] \in Whitespace
        \/ ~HasDigitMatch(OpinionLit, a.url)

UpstreamCalls(i) == {req[<<i, k>>].calls : k \in 0..MaxSub}

\* C4: a tool invocation whose arguments violate a documented constraint
\* fails with a validation error and sends no upstream request.
C4_ValidationBeforeRequest ==
  \A i \in Invs :
    (inv[i].pc # "idle" /\ ViolatesConstraint(inv[i].tool, inv[i].args)) =>
      /\ inv[i].pc = "done"
      /\ inv[i].error.type = "ValueError"
      /\ UpstreamCalls(i) = {0}
      /\ \A k \in 0..MaxSub : req[<<i, k>>].pc = "unused"

C4_Witness ==
  /\ inv[1].pc = "done"
  /\ inv[1].tool = "search"
  /\ inv[1].args.query = Str_a
  /\ inv[1].args.type = "o"
  /\ inv[1].args.limit = 51
  /\ inv[1].error.type = "ValueError"
  /\ token = TokenSet(<<" ", "t", " ">>)

\* the entries of ids at the places k where the k-th fetch ended in state pc
RECURSIVE IdsWhere(_, _, _)
IdsWhere(i, k, pc) ==
  IF k = 0 THEN <<>>
  ELSE IdsWhere(i, k - 1, pc) \o
       (IF req[<<i, k>>].pc = pc THEN <<inv[i].opinion_ids[k]>> ELSE <<>>)

ClusterFetched(i) ==
  /\ inv[i].pc = "done"
  /\ inv[i].tool \in {"get_cluster", "resolve_from_url"}
  /\ inv[i].args.include_opinions
  /\ req[<<i, 0>>].pc = "returned"

\* C5: get_cluster with include_opinions, once the cluster was fetched,
\* succeeds whatever the opinion fetches do: it has waited for all of them,
\* each extracted id is once in opinions (fetch succeeded) or in
\* opinion_errors (fetch failed), and opinions keeps the order of
\* sub_opinions.
C5_FanOutIsolatesFailures ==
  \A i \in Invs : ClusterFetched(i) =>
    LET ids == ExtractOpinionIds(req[<<i, 0>>].json.sub_opinions)
        res == inv[i].result
    IN  /\ inv[i].error = NoErr
        /\ \A k \in 1..Len(ids) : Finished(req[<<i, k>>])
        /\ Len(res.opinions) + Len(res.opinion_errors) = Len(ids)
        /\ [k \in 1..Len(res.opinions) |-> res.opinions[k].opinion_id]
             = IdsWhere(i, Len(ids), "returned")
        /\ [k \in 1..Len(res.opinion_errors) |-> res.opinion_errors[k].opinion_id]
             = IdsWhere(i, Len(ids), "raised")
        /\ \A k \in 1..Len(res.opinion_errors) : res.opinion_errors[k].error.type # "none"
        /\ Len(ids) > 0 => inv[i].opinion_ids = ids

C5_Witness ==
  /\ ClusterFetched(1)
  /\ inv[1].result.sub_opinions = <<OpinionUri(2), OpinionUri(1)>>
  /\ Len(inv[1].result.opinions) = 1
  /\ inv[1].result.opinions[1].opinion_id = 1
  /\ Len(inv[1].result.opinion_errors) = 1
  /\ inv[1].result.opinion_errors[1].opinion_id = 2

\* C8: approximate is true iff the type is one of d, r, rd and the upstream
\* count is greater than 2000.
C8_ApproximateFlag ==
  \A i \in Invs :
    (inv[i].pc = "done" /\ inv[i].tool = "search" /\ inv[i].error = NoErr) =>
      /\ inv[i].result.count = req[<<i, 0>>].json.count
      /\ inv[i].result.approximate =
           (inv[i].args.type \in {"d", "r", "rd"} /\ req[<<i, 0>>].json.count > 2000)

C8_Witness ==
  /\ inv[1].pc = "done"
  /\ inv[1].tool = "search"
  /\ inv[1].args.type = "rd"
  /\ inv[1].result.count = 2001
  /\ inv[1].result.approximate

TokenBad == ~token.present \/ \A k \in 1..Len(token.value) : token.value[k] \in Whitespace

\* C9 as stated: with a missing or blank token the program never accepts a
\* tool invocation.
C9_FatalAtStartup == TokenBad => \A i \in Invs : inv[i].pc = "idle"

\* C9: a missing or blank token is not detected at startup; an invocation
\* whose arguments pass validation fails with the RuntimeError of
\* _get_api_token before a client is constructed or a request is sent.
C9_TokenCheckedAtFirstUse ==
  TokenBad =>
    /\ client = None
    /\ pools = <<>>
    /\ \A r \in Reqs : req[r].calls = 0 /\ req[r].pc \in {"unused", "raised"}
    /\ \A i \in Invs : inv[i].pc # "idle" =>
         /\ inv[i].pc = "done"
         /\ inv[i].error.type \in {"ValueError", "RuntimeError"}
         /\ inv[i].error.type = "RuntimeError" =>
              (req[<<i, 0>>].pc = "raised" /\ req[<<i, 0>>].err = inv[i].error
                 /\ inv[i].error = _get_api_token.err)

C9_Witness ==
  /\ token = TokenSet(<<" ">>)
  /\ inv[1].pc = "done"
  /\ inv[1].tool = "get_cluster"
  /\ inv[1].error.type = "RuntimeError"

PoolIds == 1..Len(pools)

\* C6: the shared client is created lazily and once: none exists before the
\* first request that needs it, and concurrent callers that find none get
\* one and the same instance (a client is replaced only after a close has
\* reset the global).
C6_SingleLazyInit ==
  /\ (\A r \in Reqs : req[r].pc = "unused") => (pools = <<>> /\ client = None)
  /\ \A p \in PoolIds : p = client \/ p \in retired
  /\ \A r \in Reqs : Active(r) => (req[r].inst \in PoolIds /\ (req[r].inst = client \/ req[r].inst \in retired))
  /\ retired = {} => Len(pools) <= 1

C6_Witness ==
  /\ Active(<<1, 0>>)
  /\ Active(<<2, 0>>)
  /\ req[<<1, 0>>].inst = req[<<2, 0>>].inst
  /\ client = req[<<1, 0>>].inst
  /\ Len(pools) = 1
  /\ retired = {}
  /\ \A c \in Closers : closer[c].pc = "idle"

C7_Step ==
  /\ \A c \in Closers :
       \* a close that starts when no client exists returns and changes nothing
       /\ (client = None /\ closer[c].pc \in {"idle", "scheduled"}
             /\ closer'[c] # closer[c] /\ closer'[c].pc # "gone") =>
            /\ closer'[c].pc = "returned"
            /\ client' = None
            /\ pools' = pools
            /\ retired' = retired
       \* a close that ends leaves no client, and the one it closed closed
       /\ (closer[c].pc = "awaiting" /\ closer'[c].pc = "returned") =>
            /\ client' = None
            /\ pools'[closer[c].target].state = "closed"
  /\ \A p \in PoolIds :
       \* once a close has reset the global, the client it dropped is not
       \* closed again, whatever the number of later closes
       /\ pools'[p].aclose_calls > pools[p].aclose_calls => p \notin retired
       /\ pools[p].state = "closed" => pools'[p].state = "closed"

C10_NoOpenClientDropped ==
  \A p \in retired : pools[p].state = "closed"

ClosedClientError ==
  RuntimeError(<<Lit("Cannot send a request, as the client has been closed.")>>)

\* the request went from pc `from` to its end without a further attempt,
\* raising the error of the closed client
C11_Refused(r) ==
  /\ req'[r].pc = "raised"
  /\ req'[r].err = ClosedClientError
  /\ req'[r].calls = req[r].calls

C11_Step ==
  \A r \in Reqs :
    \* every attempt that goes upstream goes on a client no close has touched
    /\ req'[r].calls > req[r].calls =>
         /\ req'[r].pc = "inflight"
         /\ req'[r].calls = req[r].calls + 1
         /\ req'[r].inst \in 1..Len(pools')
         /\ pools'[req'[r].inst].state = "open"
         /\ pools'[req'[r].inst].aclose_calls = 0
    \* a request whose backoff ends after the close of its client began
    /\ (req[r].pc = "sleeping" /\ pools[req[r].inst].state = "closed"
          /\ req'[r].pc \notin {"sleeping", "gone"}) => C11_Refused(r)
    \* a request that gets the client of a close suspended before its reset
    /\ (req[r].pc = "unused" /\ client # None /\ pools[client].state = "closed"
          /\ req'[r].pc \notin {"unused", "gone"}) => C11_Refused(r)

====
